---------------------------- MODULE Spec2Model ----------------------------
(***************************************************************************)
(* Eva Calor climate platform (homeassistant/components/evacalor/          *)
(* climate.py): the config-entry setup and the EvaCalorHeatingDevice       *)
(* entity, with the vendor SDK (pyevacalor) as a nondeterministic          *)
(* collaborator.                                                           *)
(*                                                                         *)
(* Python values are tagged records.  A finite float is the double nearest *)
(* to a fraction n / d, held in lowest terms: decimal text of up to 15     *)
(* significant digits writes distinct doubles for distinct fractions, and  *)
(* doubling and halving are exact in IEEE doubles, so the fraction         *)
(* identifies the double.  inf, -inf and nan are floats of their own (nf); *)
(* an int is held as a whole number (v); a str is the sequence of its      *)
(* Unicode code points (s).  The numbers of the model are those whose      *)
(* numerator and denominator fit the integers of the model checker         *)
(* (evaluation stops beyond them).  -0.0 is held as 0.0, to which it is    *)
(* equal.                                                                  *)
(***************************************************************************)
EXTENDS Integers, Sequences, FiniteSets

VARIABLES self, device, last, host, hist

vars == <<self, device, last, host, hist>>

---------------------------------------------------------------------------
(* Bounds of the model.                                                    *)

MaxStatus == 1       \* polled status codes are 0..MaxStatus
MaxLevel == 1        \* polled (raw target, set_power) are (40 + k, 5 + k),
                     \* k in 0..MaxLevel
MaxDevices == 1      \* the account has 0..MaxDevices devices

---------------------------------------------------------------------------
(* Python values.                                                          *)

None == [type |-> "NoneType"]
IntV(n) == [type |-> "int", v |-> n]

RECURSIVE GCD(_, _)
GCD(a, b) == IF b = 0 THEN a ELSE GCD(b, a % b)

\* the float n / d (d > 0), in lowest terms
FloatV(n, d) ==
    LET g == GCD(IF n < 0 THEN -n ELSE n, d)
    IN  [type |-> "float", n |-> n \div g, d |-> d \div g]

True == [type |-> "bool", v |-> TRUE]
False == [type |-> "bool", v |-> FALSE]
\* an exception that leaves the function
Raise(e) == [type |-> "raise", exc |-> e]

Inf == [type |-> "float", nf |-> "inf"]
NegInf == [type |-> "float", nf |-> "-inf"]
NaN == [type |-> "float", nf |-> "nan"]

\* bool is a subclass of int
IsNum(x) == x.type \in {"int", "float", "bool"}
IsNonFinite(x) == x \in {Inf, NegInf, NaN}
IsRaise(x) == x.type = "raise"

\* the numeric value Num(x) / Den(x) of a bool, an int or a finite float
Num(x) ==
    IF x.type = "bool" THEN (IF x.v THEN 1 ELSE 0)
    ELSE IF x.type = "int" THEN x.v
    ELSE x.n

Den(x) == IF x.type = "float" THEN x.d ELSE 1

\* Python ==: numbers compare by value across bool, int and float
PyEq(x, y) ==
    IF IsNum(x) /\ IsNum(y)
    THEN IF IsNonFinite(x) \/ IsNonFinite(y)
         THEN x = y /\ x # NaN
         ELSE Num(x) * Den(y) = Num(y) * Den(x)
    ELSE x = y

---------------------------------------------------------------------------
(* Text.  A str is the sequence of its Unicode code points.                *)

\* the characters U+0020..U+005F and U+0061..U+007E, in the order of their
\* code points (a string of the model cannot hold U+0060)
BelowGrave ==
    " !\"#$%&'()*+,-./0123456789:;<=>?@ABCDEFGHIJKLMNOPQRSTUVWXYZ[\\]^_"
AboveGrave == "abcdefghijklmnopqrstuvwxyz{|}~"

\* the code point of a character of these
CodeOf(c) ==
    IF \E i \in 1..Len(BelowGrave) : SubSeq(BelowGrave, i, i) = c
    THEN 31 + CHOOSE i \in 1..Len(BelowGrave) : SubSeq(BelowGrave, i, i) = c
    ELSE 96 + CHOOSE i \in 1..Len(AboveGrave) : SubSeq(AboveGrave, i, i) = c

\* the code points of text written in these characters
Text(s) == [i \in 1..Len(s) |-> CodeOf(SubSeq(s, i, i))]

\* the str of that text
StrV(s) == [type |-> "str", s |-> Text(s)]

\* the str of the code points cs
StrOf(cs) == [type |-> "str", s |-> cs]

---------------------------------------------------------------------------
(* Numeric text, as float() and int() read it: every Unicode decimal digit *)
(* stands for its ASCII digit, every Unicode space outside ASCII for a     *)
(* space, and the ASCII spaces of C are skipped around the number.         *)

\* the code points float() and int() skip around a number: tab, line feed,
\* vertical tab, form feed, carriage return, space, and the spaces of
\* Unicode outside ASCII (U+0085, U+00A0, U+1680, U+2000..U+200A, U+2028,
\* U+2029, U+202F, U+205F, U+3000); U+001C..U+001F are not skipped
Whitespace ==
    {9, 10, 11, 12, 13, 32, 133, 160, 5760, 8192, 8193, 8194, 8195, 8196,
     8197, 8198, 8199, 8200, 8201, 8202, 8232, 8233, 8239, 8287, 12288}

\* the code points of the digit zero of every Unicode decimal digit range
\* (ASCII, Arabic-Indic, Devanagari, ..., fullwidth, mathematical digits)
DigitZeros ==
    {
     48, 1632, 1776, 1984, 2406, 2534, 2662, 2790, 2918, 3046, 3174, 3302,
     3430, 3558, 3664, 3792, 3872, 4160, 4240, 6112, 6160, 6470, 6608,
     6784, 6800, 6992, 7088, 7232, 7248, 42528, 43216, 43264, 43472, 43504,
     43600, 44016, 65296, 66720, 68912, 69734, 69872, 69942, 70096, 70384,
     70736, 70864, 71248, 71360, 71472, 71904, 72016, 72784, 73040, 73120,
     92768, 92864, 93008, 120782, 120792, 120802, 120812, 120822, 123200,
     123632, 125264, 130032}

IsDigit(c) == \E z \in DigitZeros : c \in z..(z + 9)

DigitVal(c) == c - (CHOOSE z \in DigitZeros : c \in z..(z + 9))

RECURSIVE StripL(_)
StripL(s) ==
    IF Len(s) > 0 /\ s[1] \in Whitespace
    THEN StripL(SubSeq(s, 2, Len(s))) ELSE s

RECURSIVE StripR(_)
StripR(s) ==
    IF Len(s) > 0 /\ s[Len(s)] \in Whitespace
    THEN StripR(SubSeq(s, 1, Len(s) - 1)) ELSE s

\* the text between the skipped characters
Strip(s) == StripR(StripL(s))

PlusSign == Text("+")
MinusSign == Text("-")
Underscore == Text("_")
Point == Text(".")
ExponentMarks == Text("eE")
InfinityTexts == {Text("inf"), Text("infinity")}
NanText == Text("nan")

HasSign(s) == Len(s) > 0 /\ s[1] \in {PlusSign[1], MinusSign[1]}
SignOf(s) == IF Len(s) > 0 /\ s[1] = MinusSign[1] THEN -1 ELSE 1
Unsigned(s) == IF HasSign(s) THEN SubSeq(s, 2, Len(s)) ELSE s

\* digits with single underscores between them: "20", "1_000"
IsDigitGroup(s) ==
    /\ Len(s) > 0
    /\ IsDigit(s[1])
    /\ IsDigit(s[Len(s)])
    /\ \A i \in 1..Len(s) : IsDigit(s[i]) \/ s[i] = Underscore[1]
    /\ \A i \in 1..(Len(s) - 1) :
          ~(s[i] = Underscore[1] /\ s[i + 1] = Underscore[1])

\* the digits of a digit group, its underscores dropped
DigitsOf(s) == SelectSeq(s, LAMBDA c : c # Underscore[1])

\* the number a sequence of digits writes (the empty one writes 0)
RECURSIVE Decimal(_)
Decimal(s) ==
    IF Len(s) = 0 THEN 0
    ELSE 10 * Decimal(SubSeq(s, 1, Len(s) - 1)) + DigitVal(s[Len(s)])

RECURSIVE Pow10(_)
Pow10(n) == IF n = 0 THEN 1 ELSE 10 * Pow10(n - 1)

\* the position of the first character of s that is in cs, 0 when none is
FirstOf(s, cs) ==
    IF \E i \in 1..Len(s) : s[i] \in cs
    THEN CHOOSE i \in 1..Len(s) :
            /\ s[i] \in cs
            /\ \A j \in 1..(i - 1) : s[j] \notin cs
    ELSE 0

Capitals == (Text("A")[1])..(Text("Z")[1])
CaseGap == Text("a")[1] - Text("A")[1]

\* lower case of an ASCII letter
LowerChar(c) == IF c \in Capitals THEN c + CaseGap ELSE c

Lower(s) == [i \in 1..Len(s) |-> LowerChar(s[i])]

\* the parts of the unsigned decimal literal u, digits [. digits]
\* [e [sign] digits], whose first exponent mark is at e and whose first
\* point is at p (0 when there is none)
PartsAt(u, e, p) ==
    [int |-> SubSeq(u, 1, IF p # 0 THEN p - 1 ELSE IF e # 0 THEN e - 1
                                                ELSE Len(u)),
     frac |-> IF p = 0 THEN <<>>
              ELSE SubSeq(u, p + 1, IF e # 0 THEN e - 1 ELSE Len(u)),
     exp |-> IF e = 0 THEN <<>> ELSE SubSeq(u, e + 1, Len(u)),
     marked |-> e # 0]

\* a point after the exponent mark is no point of the mantissa
MantissaPoint(e, p) == IF e # 0 /\ p > e THEN 0 ELSE p

Parts(u) ==
    PartsAt(u, FirstOf(u, {ExponentMarks[1], ExponentMarks[2]}),
            MantissaPoint(FirstOf(u, {ExponentMarks[1], ExponentMarks[2]}),
                          FirstOf(u, {Point[1]})))

IsDecimalLiteral(q) ==
    /\ \A g \in {q.int, q.frac} : Len(g) = 0 \/ IsDigitGroup(g)
    /\ Len(q.int) + Len(q.frac) > 0
    /\ q.marked => IsDigitGroup(Unsigned(q.exp))

\* the float digits * 10 ^ scale
Scaled(digits, scale) ==
    IF scale >= 0 THEN FloatV(digits * Pow10(scale), 1)
    ELSE FloatV(digits, Pow10(-scale))

\* the float a decimal literal of sign sgn and parts q writes
LiteralValue(sgn, q) ==
    Scaled(sgn * Decimal(DigitsOf(q.int \o q.frac)),
           SignOf(q.exp) * Decimal(DigitsOf(Unsigned(q.exp)))
               - Len(DigitsOf(q.frac)))

\* the float the unsigned text u writes after the sign sgn; l is u in
\* lower case
SignedFloat(sgn, u, l) ==
    IF l \in InfinityTexts THEN (IF sgn = 1 THEN Inf ELSE NegInf)
    ELSE IF l = NanText THEN NaN
    ELSE IF IsDecimalLiteral(Parts(u)) THEN LiteralValue(sgn, Parts(u))
    ELSE Raise("ValueError")

\* the float the text b writes, b without the skipped characters
StrippedFloat(b) == SignedFloat(SignOf(b), Unsigned(b), Lower(Unsigned(b)))

\* float(s) of the text s
ParseFloat(s) == StrippedFloat(Strip(s))

\* the int the unsigned text u writes after the sign sgn
SignedInt(sgn, u) ==
    IF IsDigitGroup(u) THEN IntV(sgn * Decimal(DigitsOf(u)))
    ELSE Raise("ValueError")

\* int(s) of the text s
ParseInt(s) == SignedInt(SignOf(Strip(s)), Unsigned(Strip(s)))

---------------------------------------------------------------------------
(* Conversions and arithmetic.                                             *)

\* float(x): the value of a number, the number text writes, TypeError on None
PyFloat(x) ==
    IF x.type = "float" THEN x
    ELSE IF IsNum(x) THEN FloatV(Num(x), 1)
    ELSE IF x.type = "str" THEN ParseFloat(x.s)
    ELSE Raise("TypeError")

\* truncation toward zero of n / d to a whole number
Trunc(n, d) == IF n >= 0 THEN n \div d ELSE -((-n) \div d)

\* int(x): truncates a float toward zero, reads integer text, TypeError on None
PyInt(x) ==
    IF x.type = "int" THEN x
    ELSE IF x.type = "bool" THEN IntV(IF x.v THEN 1 ELSE 0)
    ELSE IF x = NaN THEN Raise("ValueError")
    ELSE IF x \in {Inf, NegInf} THEN Raise("OverflowError")
    ELSE IF x.type = "float" THEN IntV(Trunc(x.n, x.d))
    ELSE IF x.type = "str" THEN ParseInt(x.s)
    ELSE Raise("TypeError")

\* x * 2 of a number (bool and int give int, float gives float)
Times2(x) ==
    IF x.type = "float"
    THEN (IF IsNonFinite(x) THEN x ELSE FloatV(x.n * 2, x.d))
    ELSE IntV(Num(x) * 2)

\* floor division in place of true division
Div2Floor(x) == FloatV(x.n \div (2 * x.d), 1)

\* x / 2 of a float (true division)
Div2(x) == IF IsNonFinite(x) THEN x ELSE FloatV(x.n, 2 * x.d)

---------------------------------------------------------------------------
(* Exceptions of the vendor SDK and of Python.                             *)

Bases ==
    [UnauthorizedError |-> "Error", ConnectionError |-> "Error",
     Error |-> "Exception", IndexError |-> "Exception",
     TypeError |-> "Exception", ValueError |-> "Exception",
     OverflowError |-> "Exception",
     Exception |-> "Exception"]

\* isinstance(e, cls) over the two-level hierarchy above
IsInstance(e, cls) == e = cls \/ Bases[e] = cls \/ Bases[Bases[e]] = cls

VendorErrors == {"UnauthorizedError", "ConnectionError", "Error"}
VendorOutcomes == {"ok"} \cup VendorErrors

---------------------------------------------------------------------------
(* Constants of the platform.  The climate constants and the fan levels    *)
(* are imported by climate.py; their values are those of the               *)
(* specification (modes heat and off, running states heat, idle and off,   *)
(* five fan levels that a polled power level can equal).                   *)

HVAC_MODE_HEAT == "heat"
HVAC_MODE_OFF == "off"
CURRENT_HVAC_HEAT == "heat"
CURRENT_HVAC_IDLE == "idle"
CURRENT_HVAC_OFF == "off"

FAN_1 == IntV(1)
FAN_2 == IntV(2)
FAN_3 == IntV(3)
FAN_4 == IntV(4)
FAN_5 == IntV(5)

FAN_MODES == <<FAN_1, FAN_2, FAN_3, FAN_4, FAN_5>>

CURRENT_HVAC_MAP_EFESTO_HEAT ==
    [k \in {StrV("ON"), StrV("CLEANING FIRE-POT"), StrV("FLAME LIGHT"),
            StrV("OFF")} |->
        IF k = StrV("OFF") THEN CURRENT_HVAC_OFF ELSE CURRENT_HVAC_HEAT]

\* x in FAN_MODES (list membership by ==)
InFanModes(x) == \E i \in 1..Len(FAN_MODES) : PyEq(x, FAN_MODES[i])

---------------------------------------------------------------------------
(* The entity.                                                             *)

\* EvaCalorHeatingDevice.__init__
EvaCalorHeatingDevice(dev) ==
    [_device_id |-> dev.id_device,
     _on |-> FALSE,
     _device_status |-> None,
     _human_device_status |-> None,
     _current_temperature |-> None,
     _target_temperature |-> None,
     _smoke_temperature |-> None,
     _real_power |-> None,
     _current_power |-> None,
     _name |-> dev.name]

current_temperature(s) == s._current_temperature

target_temperature(s) == s._target_temperature

hvac_mode(s) == IF s._on THEN HVAC_MODE_HEAT ELSE HVAC_MODE_OFF

fan_modes == FAN_MODES

\* the stored power level without the fallback
fan_mode_raw(s) == s._current_power

fan_mode(s) == IF InFanModes(s._current_power) THEN s._current_power ELSE FAN_1

\* CURRENT_HVAC_MAP_EFESTO_HEAT.get(status, CURRENT_HVAC_IDLE)
hvac_action(s) ==
    IF s._human_device_status \in DOMAIN CURRENT_HVAC_MAP_EFESTO_HEAT
    THEN CURRENT_HVAC_MAP_EFESTO_HEAT[s._human_device_status]
    ELSE CURRENT_HVAC_IDLE

device_state_attributes(s) ==
    [device_status |-> s._device_status,
     human_device_status |-> s._human_device_status,
     smoke_temperature |-> s._smoke_temperature,
     real_power |-> s._real_power]

---------------------------------------------------------------------------
(* The vendor handle.  `device` holds the attributes of the handle as of   *)
(* its last refresh; every refresh may bring any poll of Polls.            *)

StatusStrings == {"ON", "CLEANING FIRE-POT", "FLAME LIGHT", "OFF", "STANDBY"}

GoodPolls ==
    {[status |-> IntV(c),
      status_translated |-> StrV(h),
      air_temperature |-> IntV(20),
      set_air_temperature |-> IntV(40 + k),
      gas_temperature |-> FloatV(201, 2),
      real_power |-> FloatV(7, 2),
      set_power |-> IntV(5 + k)] :
        c \in 0..MaxStatus, h \in StatusStrings, k \in 0..MaxLevel}

\* the attributes update() converts before it stores the status string,
\* and those it converts after
ConvertedBefore == {"air_temperature", "set_air_temperature"}
ConvertedAfter == {"gas_temperature", "real_power", "set_power"}

\* polls in which one attribute is missing (None): the status string is
\* "STANDBY" when the conversion that fails comes before its assignment,
\* "OFF" when it comes after
BadPolls ==
    {[g EXCEPT ![f] = None] :
        g \in {p \in GoodPolls : /\ p.status = IntV(0)
                                 /\ p.status_translated = StrV("STANDBY")
                                 /\ p.set_power = IntV(5 + MaxLevel)},
        f \in ConvertedBefore}
    \cup
    {[g EXCEPT ![f] = None] :
        g \in {p \in GoodPolls : /\ p.status = IntV(0)
                                 /\ p.status_translated = StrV("OFF")
                                 /\ p.set_power = IntV(5 + MaxLevel)},
        f \in ConvertedAfter}

\* polls in which the handle gives numbers as text: " 20.1" after an em
\* space (U+2003), "40.5", "3" and the Arabic-Indic digit five (U+0665)
TextPolls ==
    {[g EXCEPT !.air_temperature = StrOf(<<8195>> \o Text("20.1")),
               !.set_air_temperature = StrV("40.5"),
               !.real_power = StrV("3"),
               !.set_power = StrOf(<<1637>>)] :
        g \in {p \in GoodPolls : /\ p.status = IntV(1)
                                 /\ p.status_translated = StrV("ON")
                                 /\ p.set_power = IntV(5)}}

Polls == GoodPolls \cup BadPolls \cup TextPolls

\* the handle before its first refresh
NoPoll ==
    [status |-> None, status_translated |-> None, air_temperature |-> None,
     set_air_temperature |-> None, gas_temperature |-> None,
     real_power |-> None, set_power |-> None]

\* one vendor call: a method call or an attribute write
Call(name, value) == [call |-> name, value |-> value]

\* an except clause that catches connection failures only
TryVendorNarrow(outcome) ==
    IF outcome = "ok" THEN None
    ELSE IF IsInstance(outcome, "ConnectionError") THEN None
    ELSE Raise(outcome)

\* try: <one vendor call> except EvaCalorError: log; the command returns None
TryVendor(outcome) ==
    IF outcome = "ok" THEN None
    ELSE IF IsInstance(outcome, "Error") THEN None
    ELSE Raise(outcome)

---------------------------------------------------------------------------
(* The commands: each yields the entity, the result (None, or the          *)
(* exception that leaves the method) and the vendor calls it made.         *)

turn_off(s, outcome) ==
    [self |-> s, result |-> TryVendor(outcome),
     calls |-> <<Call("turn_off", None)>>]

turn_on(s, outcome) ==
    [self |-> s, result |-> TryVendor(outcome),
     calls |-> <<Call("turn_on", None)>>]

set_temperature(s, temperature, outcome) ==
    IF temperature = None
    THEN [self |-> s, result |-> None, calls |-> <<>>]
    ELSE [self |-> s, result |-> TryVendor(outcome),
          calls |-> <<Call("set_air_temperature", Times2(temperature))>>]

set_fan_mode(s, mode, outcome) ==
    IF mode = None
    THEN [self |-> s, result |-> None, calls |-> <<>>]
    ELSE [self |-> s, result |-> TryVendor(outcome),
          calls |-> <<Call("set_power", mode)>>]

\* else in place of elif: every mode but "off" turns the device on
set_hvac_mode_else(s, mode, outcome) ==
    IF mode = HVAC_MODE_OFF THEN turn_off(s, outcome)
    ELSE turn_on(s, outcome)

set_hvac_mode(s, mode, outcome) ==
    IF mode = HVAC_MODE_OFF THEN turn_off(s, outcome)
    ELSE IF mode = HVAC_MODE_HEAT THEN turn_on(s, outcome)
    ELSE [self |-> s, result |-> None, calls |-> <<>>]

---------------------------------------------------------------------------
(* update(): the refresh, then the assignments in source order; a          *)
(* conversion that raises leaves the method with the assignments made so   *)
(* far.                                                                    *)

\* the two branches exchanged
OnFlagInverted(status) == PyEq(status, IntV(0))

\* if self._device_status == 0: False, else: True
OnFlag(status) == ~PyEq(status, IntV(0))

\* the assignments of update() from the refreshed handle dev
Assign(s, dev) ==
    LET s1 == [s EXCEPT !._device_status = dev.status]
        air == PyFloat(dev.air_temperature)
        s2 == [s1 EXCEPT !._current_temperature = air]
        tgt == PyFloat(dev.set_air_temperature)
        s3 == [s2 EXCEPT !._target_temperature = Div2(tgt),
                         !._human_device_status = dev.status_translated]
        gas == PyFloat(dev.gas_temperature)
        s4 == [s3 EXCEPT !._smoke_temperature = gas]
        rp == PyInt(dev.real_power)
        s5 == [s4 EXCEPT !._real_power = rp]
        cp == PyInt(dev.set_power)
        s6 == [s5 EXCEPT !._current_power = cp]
        s7 == [s6 EXCEPT !._on = OnFlag(s6._device_status)]
    IN  IF IsRaise(air) THEN [self |-> s1, result |-> air]
        ELSE IF IsRaise(tgt) THEN [self |-> s2, result |-> tgt]
        ELSE IF IsRaise(gas) THEN [self |-> s3, result |-> gas]
        ELSE IF IsRaise(rp) THEN [self |-> s4, result |-> rp]
        ELSE IF IsRaise(cp) THEN [self |-> s5, result |-> cp]
        ELSE [self |-> s7, result |-> True]

\* a failed refresh that also marks the device off
update_clears(s, outcome, dev) ==
    IF outcome # "ok"
    THEN [self |-> [s EXCEPT !._on = FALSE], result |-> False,
          calls |-> <<Call("update", None)>>]
    ELSE LET a == Assign(s, dev)
         IN  [self |-> a.self, result |-> a.result,
              calls |-> <<Call("update", None)>>]

\* outcome is that of device.update(); dev is the handle once refreshed
update(s, outcome, dev) ==
    IF outcome = "ok"
    THEN LET a == Assign(s, dev)
         IN  [self |-> a.self, result |-> a.result,
              calls |-> <<Call("update", None)>>]
    ELSE IF IsInstance(outcome, "UnauthorizedError")
    THEN [self |-> s, result |-> False, calls |-> <<Call("update", None)>>]
    ELSE IF IsInstance(outcome, "ConnectionError")
    THEN [self |-> s, result |-> False, calls |-> <<Call("update", None)>>]
    ELSE IF IsInstance(outcome, "Error")
    THEN [self |-> s, result |-> False, calls |-> <<Call("update", None)>>]
    \* no except clause matches: the exception leaves update()
    ELSE [self |-> s, result |-> Raise(outcome),
          calls |-> <<Call("update", None)>>]

---------------------------------------------------------------------------
(* Setup of the config entry.                                              *)

\* the devices of an account with n devices
Devices(n) == [i \in 1..n |-> [id_device |-> IntV(i), name |-> IntV(i)]]

\* outcome is that of evacalor(email, password, gen_uuid) and of .devices
async_setup_entry(outcome, devices) ==
    IF outcome = "ok"
    THEN IF Len(devices) = 0
         THEN [result |-> Raise("IndexError"), entities |-> <<>>,
               update_before_add |-> FALSE]
         ELSE [result |-> True,
               entities |-> <<EvaCalorHeatingDevice(devices[1])>>,
               update_before_add |-> TRUE]
    ELSE IF IsInstance(outcome, "UnauthorizedError")
    THEN [result |-> False, entities |-> <<>>, update_before_add |-> FALSE]
    ELSE IF IsInstance(outcome, "ConnectionError")
    THEN [result |-> False, entities |-> <<>>, update_before_add |-> FALSE]
    ELSE IF IsInstance(outcome, "Error")
    THEN [result |-> False, entities |-> <<>>, update_before_add |-> FALSE]
    \* no except clause matches: the exception leaves the setup
    ELSE [result |-> Raise(outcome), entities |-> <<>>,
          update_before_add |-> FALSE]

---------------------------------------------------------------------------
(* The state machine.  self is the entity (before setup, the fields of an  *)
(* entity not yet bound to a device); device is the vendor handle as of    *)
(* its last refresh; last is the operation that ended last; host is what   *)
(* the host platform has seen of the setup.  hist is history: pending     *)
(* tells that a command ended since the last update() that returned True,  *)
(* wrote is the temperature given to set_temperature when that was the     *)
(* operation just before the last update(), polled is the status string   *)
(* polled by the last update() that returned True (None before one did).   *)

NoDevice == [id_device |-> None, name |-> None]

Temperatures == {None, IntV(20), FloatV(41, 2)}
FanArgs == {None, FAN_5}
ModeArgs == {HVAC_MODE_OFF, HVAC_MODE_HEAT, "cool"}

Done(op, arg, outcome, r) ==
    [op |-> op, arg |-> arg, outcome |-> outcome, result |-> r.result,
     calls |-> r.calls]

Init ==
    /\ self = EvaCalorHeatingDevice(NoDevice)
    /\ device = NoPoll
    /\ last = [op |-> "none", arg |-> None, outcome |-> "ok", result |-> None,
               calls |-> <<>>]
    /\ host = [setup |-> None, entities |-> <<>>, update_before_add |-> FALSE]
    /\ hist = [pending |-> FALSE, wrote |-> None, polled |-> None]

AsyncSetupEntry ==
    /\ host.setup = None
    /\ \E outcome \in VendorOutcomes, n \in 0..MaxDevices :
         LET r == async_setup_entry(outcome, Devices(n))
         IN  /\ host' = [setup |-> r.result, entities |-> r.entities,
                         update_before_add |-> r.update_before_add]
             /\ self' = IF Len(r.entities) > 0 THEN r.entities[1] ELSE self
             /\ last' = [op |-> "async_setup_entry", arg |-> None,
                         outcome |-> outcome, result |-> r.result,
                         calls |-> <<>>]
    /\ UNCHANGED <<device, hist>>

Commanded == hist' = [pending |-> TRUE, wrote |-> None,
                      polled |-> hist.polled]

Added == Len(host.entities) = 1

Update ==
    /\ Added
    /\ \E outcome \in VendorOutcomes :
         \E dev \in IF outcome = "ok" THEN Polls ELSE {device} :
           LET r == update(self, outcome, dev)
           IN  /\ self' = r.self
               /\ device' = dev
               /\ last' = Done("update", None, outcome, r)
               /\ hist' = [pending |-> hist.pending /\ r.result # True,
                           wrote |-> IF last.op = "set_temperature"
                                     THEN last.arg ELSE None,
                           polled |-> IF r.result = True
                                      THEN dev.status_translated
                                      ELSE hist.polled]
    /\ UNCHANGED host

TurnOff ==
    /\ Added
    /\ \E outcome \in VendorOutcomes :
         LET r == turn_off(self, outcome)
         IN  self' = r.self /\ last' = Done("turn_off", None, outcome, r)
    /\ Commanded
    /\ UNCHANGED <<device, host>>

TurnOn ==
    /\ Added
    /\ \E outcome \in VendorOutcomes :
         LET r == turn_on(self, outcome)
         IN  self' = r.self /\ last' = Done("turn_on", None, outcome, r)
    /\ Commanded
    /\ UNCHANGED <<device, host>>

SetTemperature ==
    /\ Added
    /\ \E temperature \in Temperatures :
       \E outcome \in IF temperature = None THEN {"ok"} ELSE VendorOutcomes :
         LET r == set_temperature(self, temperature, outcome)
         IN  /\ self' = r.self
             /\ last' = Done("set_temperature", temperature, outcome, r)
    /\ Commanded
    /\ UNCHANGED <<device, host>>

SetFanMode ==
    /\ Added
    /\ \E mode \in FanArgs :
       \E outcome \in IF mode = None THEN {"ok"} ELSE VendorOutcomes :
         LET r == set_fan_mode(self, mode, outcome)
         IN  /\ self' = r.self
             /\ last' = Done("set_fan_mode", mode, outcome, r)
    /\ Commanded
    /\ UNCHANGED <<device, host>>

SetHvacMode ==
    /\ Added
    /\ \E mode \in ModeArgs :
       \E outcome \in IF mode \in {HVAC_MODE_OFF, HVAC_MODE_HEAT}
                      THEN VendorOutcomes ELSE {"ok"} :
         LET r == set_hvac_mode(self, mode, outcome)
         IN  /\ self' = r.self
             /\ last' = Done("set_hvac_mode", StrV(mode), outcome, r)
    /\ Commanded
    /\ UNCHANGED <<device, host>>

Next ==
    \/ AsyncSetupEntry
    \/ Update
    \/ TurnOff
    \/ TurnOn
    \/ SetTemperature
    \/ SetFanMode
    \/ SetHvacMode

Spec == Init /\ [][Next]_vars

---------------------------------------------------------------------------
(* Vocabulary of the properties.                                           *)

Commands ==
    {"turn_on", "turn_off", "set_temperature", "set_fan_mode", "set_hvac_mode"}

\* the last operation was an update() that returned True
SuccessfulUpdate == last.op = "update" /\ last.result = True

\* the last operation was an update() whose refresh the vendor failed
FailedRefresh == last.op = "update" /\ last.outcome \in VendorErrors

\* the number y is two times the number x
Twice(y, x) == Num(y) * Den(x) = 2 * Num(x) * Den(y)

\* the number x is a multiple of 0.5
HalfStep(x) == (2 * Num(x)) % Den(x) = 0

\* every snapshot field of s, the on-flag included, is the one poll d gives
FromPoll(s, d) ==
    /\ s._device_status = d.status
    /\ s._human_device_status = d.status_translated
    /\ s._current_temperature = PyFloat(d.air_temperature)
    /\ PyFloat(d.set_air_temperature).type = "float"
    /\ s._target_temperature.type = "float"
    /\ Twice(PyFloat(d.set_air_temperature), s._target_temperature)
    /\ s._smoke_temperature = PyFloat(d.gas_temperature)
    /\ s._real_power = PyInt(d.real_power)
    /\ s._current_power = PyInt(d.set_power)
    /\ s._on = ~PyEq(d.status, IntV(0))

\* what the host reads of the entity between polls
Reads(s) == <<hvac_mode(s), target_temperature(s), fan_mode(s), hvac_action(s)>>

---------------------------------------------------------------------------
(* C1: an update() whose refresh fails with an unauthorized, connection or *)
(* generic vendor failure returns False and leaves every snapshot field as *)
(* it was, whatever updates and commands came before.                      *)
C1_FailedUpdateKeepsSnapshot ==
    [][FailedRefresh' => (last'.result = False /\ self' = self)]_vars

C1_Witness ==
    /\ FailedRefresh
    /\ last.result = False
    /\ hist.pending
    /\ self._device_status = IntV(1)
    /\ self._current_power = IntV(5)

(* C2: when an update() call has ended, by returning or by an exception,   *)
(* either every snapshot field comes from the poll of that call or the     *)
(* call changed no field.                                                  *)
C2_NoPartialUpdate ==
    [][last'.op = "update" => (self' = self \/ FromPoll(self', device'))]_vars

(* C3: after an update() that returned True the on-flag is false and       *)
(* hvac_mode is "off" when the polled status code is 0, the on-flag is     *)
(* true and hvac_mode is "heat" when it is not 0; no other operation       *)
(* (command, failed update) changes hvac_mode.                             *)
C3_ModeFollowsStatus ==
    /\ [](SuccessfulUpdate =>
            IF device.status = IntV(0)
            THEN ~self._on /\ hvac_mode(self) = "off"
            ELSE self._on /\ hvac_mode(self) = "heat")
    /\ [][~SuccessfulUpdate' => hvac_mode(self') = hvac_mode(self)]_vars

C3_Witness ==
    /\ last.op = "turn_on"
    /\ self._device_status = IntV(0)
    /\ hvac_mode(self) = "off"

(* C4: set_temperature(t), t a multiple of 0.5, writes t * 2 to the vendor *)
(* handle, and an update() that follows it, returns True and polls that    *)
(* doubled value makes target_temperature read t.                          *)
C4_TargetRoundTrip ==
    /\ (last.op = "set_temperature" /\ last.arg # None
            /\ HalfStep(last.arg)) =>
         /\ Len(last.calls) = 1
         /\ last.calls[1].call = "set_air_temperature"
         /\ Twice(last.calls[1].value, last.arg)
    /\ (SuccessfulUpdate /\ hist.wrote # None
            /\ HalfStep(hist.wrote)
            /\ Twice(PyFloat(device.set_air_temperature), hist.wrote)) =>
         PyEq(target_temperature(self), hist.wrote)

C4_Witness ==
    /\ SuccessfulUpdate
    /\ hist.wrote = FloatV(41, 2)
    /\ device.set_air_temperature = IntV(41)
    /\ target_temperature(self) = FloatV(41, 2)

(* C5: setup ends in one of two outcomes: on an unauthorized, connection   *)
(* or generic vendor failure it returns False with no entity registered;   *)
(* otherwise it registers exactly one entity, asks for an immediate poll   *)
(* and returns True.                                                       *)
C5_SetupTwoOutcomes ==
    /\ host.setup # None =>
          \/ host.setup = False /\ Len(host.entities) = 0
          \/ host.setup = True /\ Len(host.entities) = 1
                /\ host.update_before_add
    /\ last.op = "async_setup_entry" =>
          (host.setup = False <=> last.outcome \in VendorErrors)

(* C6: set_hvac_mode("off") makes the one vendor call turn_off,            *)
(* set_hvac_mode("heat") the one vendor call turn_on, and any other mode   *)
(* makes no vendor call and returns normally.                              *)
C6_SetHvacModeCalls ==
    last.op = "set_hvac_mode" =>
        IF last.arg = StrV("off") THEN last.calls = <<Call("turn_off", None)>>
        ELSE IF last.arg = StrV("heat")
        THEN last.calls = <<Call("turn_on", None)>>
        ELSE last.calls = <<>> /\ last.result = None

C6_Witness ==
    /\ last.op = "set_hvac_mode"
    /\ last.arg = StrV("cool")
    /\ last.calls = <<>>
    /\ last.result = None

(* C7: a command leaves every snapshot field as it was, and from a command *)
(* to the next update() that returns True hvac_mode, target_temperature,   *)
(* fan_mode and hvac_action keep the values they had before the command.   *)
C7_CommandsKeepSnapshot ==
    [][/\ last'.op \in Commands => self' = self
       /\ (hist.pending /\ hist'.pending) => Reads(self') = Reads(self)]_vars

(* C8: turn_on, turn_off, set_temperature and set_fan_mode return normally *)
(* (None) when the vendor call raises an unauthorized, connection or other *)
(* vendor error, as they do when it succeeds.                              *)
C8_CommandErrorsSwallowed ==
    last.op \in {"turn_on", "turn_off", "set_temperature", "set_fan_mode"} =>
        last.result = None

C8_Witness ==
    /\ last.op = "set_temperature"
    /\ last.outcome = "UnauthorizedError"
    /\ Len(last.calls) = 1
    /\ last.result = None

(* C9: fan_mode is the power level stored by the last update() that        *)
(* returned True when that level is one of the five fan levels, the first  *)
(* fan level otherwise, and always one of fan_modes.                       *)
C9_FanMode ==
    /\ [](/\ fan_mode(self) =
               IF \E i \in 1..5 : self._current_power = FAN_MODES[i]
               THEN self._current_power ELSE FAN_MODES[1]
          /\ \E i \in 1..Len(fan_modes) : fan_mode(self) = fan_modes[i])
    /\ [](SuccessfulUpdate => self._current_power = PyInt(device.set_power))
    /\ [][~SuccessfulUpdate' => self'._current_power = self._current_power]_vars

C9_Witness ==
    /\ SuccessfulUpdate
    /\ device.set_power = IntV(5)
    /\ fan_mode(self) = IntV(5)

\* the running state the table gives for the polled status string x
Classified(x) ==
    IF x \in {StrV("ON"), StrV("CLEANING FIRE-POT"), StrV("FLAME LIGHT")}
    THEN CURRENT_HVAC_HEAT
    ELSE IF x = StrV("OFF") THEN CURRENT_HVAC_OFF
    ELSE CURRENT_HVAC_IDLE

(* C10: hvac_action is what the table gives for the status string of the   *)
(* last successful poll (heat for "ON", "CLEANING FIRE-POT" and "FLAME     *)
(* LIGHT", off for "OFF", idle for anything else and before any poll),     *)
(* whatever the on-flag; the last successful poll is read either as the    *)
(* last update() that returned True or as the last refresh of the handle   *)
(* that succeeded, and hvac_action agrees with one of the two.             *)
C10_HvacAction ==
    /\ hvac_action(self) = Classified(self._human_device_status)
    /\ \/ hvac_action(self) = Classified(hist.polled)
       \/ hvac_action(self) = Classified(device.status_translated)

=============================================================================
